---- MODULE Spec2Model ----
(***************************************************************************)
(* igraph_dqueue: the growable double ended queue of the igraph library,   *)
(* a circular buffer over one heap block.  The four pointers of the        *)
(* structure (stor_begin, stor_end, begin, end) are modelled as addresses  *)
(* (natural numbers, NULL = 0) into a heap of zero-initialised blocks, so  *)
(* that the pointer comparisons and the pointer arithmetic of the C code   *)
(* are translated literally.                                               *)
(***************************************************************************)
EXTENDS Integers, Sequences, FiniteSets, TLC

(***************************************************************************)
(* Bounds of the model.                                                    *)
(***************************************************************************)
\* largest block the allocator hands out (growth beyond it is not explored)
MaxCap == 5
\* the elements pushed are 0..MaxElem
MaxElem == 1
\* init is called with sizes  -NegReq .. MaxReq
MaxReq == 3
NegReq == 1
\* at most MaxPush successful pushes between two init/clear calls
MaxPush == 6
\* igraph_dqueue_e is called with indices 0 .. MaxIdx
MaxIdx == 5
\* the runs that account for the cost of growth (SpecCost) push only the
\* element 0, at most MaxTotal times in the life of a queue, and let the
\* block grow up to MaxCostCap cells
MaxCostCap == 15
MaxTotal == 9

Elems == 0..MaxElem
Requests == (0 - NegReq)..MaxReq

(***************************************************************************)
(* Program constants.                                                      *)
(***************************************************************************)
\* the null pointer: below every address the allocator hands out
NULL == 0
\* the error code IGRAPH_ERROR returns when igraph_Calloc fails (success is 0)
IGRAPH_ENOMEM == 2

\* The addresses at which the allocator may place a block: far enough apart
\* for two blocks of MaxCap cells (and their one-past-the-end pointers) not
\* to overlap.
Bases == {1, (IF MaxCap >= MaxCostCap THEN MaxCap ELSE MaxCostCap) + 2}

VARIABLES
    \* the fields of the igraph_dqueue structure
    stor_begin, stor_end, begin, end,
    \* the heap: base address of each allocated block |-> its cells
    heap,
    \* lifecycle of the instance: "uninit", "live", "failed", "destroyed"
    status,
    \* the last call and what it returned
    ret,
    \* history: the abstract content, the pushes and removals since init/clear
    abs, npush, nrem,
    \* history of a run "init; push*; pop*" or "init; push*; pop_back*"
    mode, pushed, popped,
    \* cost accounting since init: whether it is kept (on), the successful
    \* pushes and the cells copied by the memcpy calls of the growing pushes
    acct,
    \* whether igraph_Free was ever called on a block that is not allocated
    badfree

hist == <<abs, npush, nrem, mode, pushed, popped>>
vars == <<stor_begin, stor_end, begin, end, heap, status, ret,
          abs, npush, nrem, mode, pushed, popped, acct, badfree>>

(***************************************************************************)
(* Memory.                                                                 *)
(***************************************************************************)
Zeros(n) == [i \in 1..n |-> 0]

\* *(p) for a pointer p into the block of the queue
Deref(p) == heap[stor_begin][p - stor_begin + 1]

\* the heap after  *(p) = v
Store(h, base, p, v) == [h EXCEPT ![base][p - base + 1] = v]

\* the heap after igraph_Calloc placed a zeroed block of n cells at b
Calloc(h, b, n) == [a \in DOMAIN h \cup {b} |-> IF a = b THEN Zeros(n) ELSE h[a]]

\* the heap after igraph_Free(b)
Free(h, b) == [a \in DOMAIN h \ {b} |-> h[a]]

\* igraph_Free(b) on a block that is not allocated (freed before, or never
\* handed out)
BadFree(h, b) == b \notin DOMAIN h

B2I(b) == IF b THEN 1 ELSE 0

\* the record of a call: its name, its argument (0 when it has none), the
\* value it returned (for destroy, which returns nothing, the number of
\* blocks it freed), and for a push that grew the block the offset of begin
\* in the old block (-1 for every other call)
Ret(op, arg, val) == [op |-> op, arg |-> arg, val |-> val, grew |-> 0 - 1]
RetGrow(arg, off) == [op |-> "push", arg |-> arg, val |-> 0, grew |-> off]

(***************************************************************************)
(* Queries.                                                                *)
(***************************************************************************)
\* empty with the sense of the doc comment's return line
igraph_dqueue_empty_Inverted == end # NULL

igraph_dqueue_empty == end = NULL

igraph_dqueue_full == begin = end

\* size with the two-piece case forgotten
igraph_dqueue_size_OnePiece ==
    IF end = NULL THEN 0 ELSE end - begin

igraph_dqueue_size ==
    IF end = NULL THEN 0
    ELSE IF begin < end THEN end - begin
    ELSE stor_end - begin + end - stor_begin

igraph_dqueue_head == Deref(begin)

\* back reading the wrong end of the block when end is at its start
igraph_dqueue_back_WrapToStart ==
    IF end = stor_begin THEN Deref(stor_begin) ELSE Deref(end - 1)

igraph_dqueue_back ==
    IF end = stor_begin THEN Deref(stor_end - 1) ELSE Deref(end - 1)

\* the cells from..to-1 of the queue's block, as a sequence
Cells(from, to) == [i \in 1..(to - from) |-> Deref(from + (i - 1))]

\* the elements igraph_dqueue_fprint writes, in the order it writes them
Content ==
    IF end = NULL THEN <<>>
    ELSE IF end > begin THEN Cells(begin, end)
    ELSE Cells(begin, stor_end) \o Cells(stor_begin, end)

igraph_dqueue_e(idx) ==
    IF (begin + idx < end) \/ (begin >= end /\ begin + idx < stor_end)
    THEN Deref(begin + idx)
    ELSE IF begin >= end /\ stor_begin + idx < end
    THEN Deref(stor_begin + (idx - (stor_end - begin)))
    ELSE 0

(***************************************************************************)
(* History bookkeeping shared by the actions.                              *)
(***************************************************************************)
HistReset(m) ==
    /\ abs' = <<>> /\ npush' = 0 /\ nrem' = 0
    /\ mode' = m /\ pushed' = <<>> /\ popped' = <<>>

HistOther ==
    /\ mode' = "other" /\ pushed' = <<>> /\ popped' = <<>>

\* the accounts of a new queue
AcctInit == acct' = [acct EXCEPT !.pushes = 0, !.copied = 0]

\* the accounts after a successful push whose memcpy calls copied n cells
AcctPush(n) ==
    acct' = IF acct.on
            THEN [acct EXCEPT !.pushes = @ + 1, !.copied = @ + n]
            ELSE acct

(***************************************************************************)
(* init, destroy, clear.                                                   *)
(***************************************************************************)
\* the number of cells init allocates, with a request of 0 let through
InitCap_ZeroAllowed(size) == IF size < 0 THEN 1 ELSE size

\* the number of cells init allocates
InitCap(size) == IF size <= 0 THEN 1 ELSE size

igraph_dqueue_init(size) ==
    /\ status \in {"uninit", "failed", "destroyed"}
    /\ LET n == InitCap(size) IN
       \/ \* igraph_Calloc returns 0
          /\ stor_begin' = 0
          /\ UNCHANGED <<stor_end, begin, end, heap>>
          /\ status' = "failed"
          /\ ret' = Ret("init", size, IGRAPH_ENOMEM)
          /\ HistReset("other")
          /\ AcctInit /\ UNCHANGED badfree
       \/ \E b \in Bases \ DOMAIN heap :
          /\ heap' = Calloc(heap, b, n)
          /\ stor_begin' = b
          /\ stor_end' = b + n
          /\ begin' = b
          /\ end' = NULL
          /\ status' = "live"
          /\ ret' = Ret("init", size, 0)
          /\ HistReset("pushing")
          /\ AcctInit /\ UNCHANGED badfree

\* destroy that leaves stor_begin pointing at the freed block
igraph_dqueue_destroy_NoReset ==
    /\ status \in {"live", "failed", "destroyed"}
    /\ IF stor_begin # 0
       THEN /\ heap' = Free(heap, stor_begin)
            /\ badfree' = (badfree \/ BadFree(heap, stor_begin))
            /\ UNCHANGED stor_begin
       ELSE UNCHANGED <<heap, stor_begin, badfree>>
    /\ UNCHANGED acct
    /\ UNCHANGED <<stor_end, begin, end>>
    /\ status' = IF status = "live" THEN "destroyed" ELSE status
    /\ ret' = Ret("destroy", 0, B2I(stor_begin # 0))
    /\ HistReset("other")

igraph_dqueue_destroy ==
    /\ status \in {"live", "failed", "destroyed"}
    /\ IF stor_begin # 0
       THEN /\ heap' = Free(heap, stor_begin)
            /\ badfree' = (badfree \/ BadFree(heap, stor_begin))
            /\ stor_begin' = 0
       ELSE UNCHANGED <<heap, stor_begin, badfree>>
    /\ UNCHANGED acct
    /\ UNCHANGED <<stor_end, begin, end>>
    /\ status' = IF status = "live" THEN "destroyed" ELSE status
    /\ ret' = Ret("destroy", 0, B2I(stor_begin # 0))
    /\ HistReset("other")

\* clear that rewinds end to the start of the block instead of setting it NULL
igraph_dqueue_clear_EndAtStart ==
    /\ status = "live"
    /\ begin' = stor_begin
    /\ end' = stor_begin
    /\ UNCHANGED <<stor_begin, stor_end, heap, status>>
    /\ ret' = Ret("clear", 0, 0)
    /\ HistReset("other")
    /\ UNCHANGED <<acct, badfree>>

igraph_dqueue_clear ==
    /\ status = "live"
    /\ begin' = stor_begin
    /\ end' = NULL
    /\ UNCHANGED <<stor_begin, stor_end, heap, status>>
    /\ ret' = Ret("clear", 0, 0)
    /\ HistReset("other")
    /\ UNCHANGED <<acct, badfree>>

(***************************************************************************)
(* pop, pop_back.  Both require a non-empty queue.                         *)
(***************************************************************************)
\* begin after (q->begin)++ with the wrap at stor_end forgotten
PopBegin_NoWrap(b) == b + 1

\* begin after (q->begin)++ and the wrap at stor_end
PopBegin(b) == IF b + 1 = stor_end THEN stor_begin ELSE b + 1

\* end after a removal whose comparison with begin is forgotten
EndAfterRemove_NeverEmpty(b, e) == e

\* end after the comparison with begin that closes pop and pop_back
EndAfterRemove(b, e) == IF b = e THEN NULL ELSE e

igraph_dqueue_pop ==
    /\ status = "live"
    /\ end # NULL
    /\ LET tmp == Deref(begin)
           b1 == PopBegin(begin)
       IN  /\ begin' = b1
           /\ end' = EndAfterRemove(b1, end)
           /\ ret' = Ret("pop", 0, tmp)
           /\ IF mode \in {"pushing", "popping"}
              THEN mode' = "popping" /\ popped' = Append(popped, tmp)
                   /\ UNCHANGED pushed
              ELSE HistOther
    /\ abs' = Tail(abs)
    /\ nrem' = nrem + 1
    /\ UNCHANGED <<stor_begin, stor_end, heap, status, npush, acct, badfree>>

\* end after the decrement of pop_back, wrapping to the wrong end of the block
PopBackEnd_WrapToStart(e) == IF e # stor_begin THEN e - 1 ELSE stor_begin

\* end after the decrement of pop_back, with its wrap at stor_begin
PopBackEnd(e) == IF e # stor_begin THEN e - 1 ELSE stor_end - 1

igraph_dqueue_pop_back ==
    /\ status = "live"
    /\ end # NULL
    /\ LET e1 == PopBackEnd(end)
           tmp == Deref(e1)
       IN  /\ end' = EndAfterRemove(begin, e1)
           /\ ret' = Ret("pop_back", 0, tmp)
           /\ IF mode \in {"pushing", "popping_back"}
              THEN mode' = "popping_back" /\ popped' = Append(popped, tmp)
                   /\ UNCHANGED pushed
              ELSE HistOther
    /\ abs' = SubSeq(abs, 1, Len(abs) - 1)
    /\ nrem' = nrem + 1
    /\ UNCHANGED <<stor_begin, stor_end, begin, heap, status, npush, acct,
                   badfree>>

(***************************************************************************)
(* push.                                                                   *)
(***************************************************************************)
\* end after  *(q->end) = elem; (q->end)++  with the wrap forgotten
PushEnd_NoWrap(e, sb, se) == e + 1

\* end after  *(q->end) = elem; (q->end)++  wrapping one cell too late
PushEnd_WrapLate(e, sb, se) == IF e + 1 > se THEN sb ELSE e + 1

\* end after  *(q->end) = elem; (q->end)++  and the wrap at the block's end
PushEnd(e, sb, se) == IF e + 1 = se THEN sb ELSE e + 1

\* a growing push that allocates one cell more than it has
GrowCap_PlusOne(c) == c + 1

\* capacity of the block allocated by a growing push
GrowCap(c) == 2 * c + 1

\* the cells of the bigger block with the second memcpy forgotten
GrowCopy_FirstPieceOnly(c) ==
    LET n1 == stor_end - begin
    IN  [i \in 1..GrowCap(c) |->
            IF i <= n1 THEN Deref(begin + (i - 1)) ELSE 0]

\* the cells of the bigger block after the two memcpy calls
GrowCopy(c) ==
    LET n1 == stor_end - begin
        n2 == end - stor_begin
    IN  [i \in 1..GrowCap(c) |->
            IF i <= n1 THEN Deref(begin + (i - 1))
            ELSE IF n2 > 0 /\ i <= n1 + n2 THEN Deref(stor_begin + (i - n1 - 1))
            ELSE 0]

HistPush(elem) ==
    /\ abs' = Append(abs, elem)
    /\ npush' = npush + 1
    /\ UNCHANGED nrem
    /\ IF mode = "pushing"
       THEN pushed' = Append(pushed, elem) /\ UNCHANGED <<mode, popped>>
       ELSE HistOther

\* push on a queue that is not full, an empty queue restarting at the start
\* of the block instead of at begin
PushNotFull_EmptyAtStart(elem) ==
    LET e0 == IF end = NULL THEN stor_begin ELSE end IN
    /\ heap' = Store(heap, stor_begin, e0, elem)
    /\ end' = PushEnd(e0, stor_begin, stor_end)
    /\ UNCHANGED <<stor_begin, stor_end, begin, status>>
    /\ ret' = Ret("push", elem, 0)
    /\ HistPush(elem)
    /\ AcctPush(0) /\ UNCHANGED badfree

\* push on a queue that is not full
PushNotFull(elem) ==
    LET e0 == IF end = NULL THEN begin ELSE end IN
    /\ heap' = Store(heap, stor_begin, e0, elem)
    /\ end' = PushEnd(e0, stor_begin, stor_end)
    /\ UNCHANGED <<stor_begin, stor_end, begin, status>>
    /\ ret' = Ret("push", elem, 0)
    /\ HistPush(elem)
    /\ AcctPush(0) /\ UNCHANGED badfree

\* a failing growth that has already recorded the bigger capacity
PushGrowFail_CapacityFirst(elem) ==
    /\ stor_end' = stor_begin + GrowCap(stor_end - stor_begin)
    /\ UNCHANGED <<stor_begin, begin, end, heap, status>>
    /\ UNCHANGED <<abs, npush, nrem>>
    /\ ret' = Ret("push", elem, IGRAPH_ENOMEM)
    /\ HistOther
    /\ UNCHANGED <<acct, badfree>>

\* push on a full queue when igraph_Calloc returns 0
PushGrowFail(elem) ==
    /\ UNCHANGED <<stor_begin, stor_end, begin, end, heap, status>>
    /\ UNCHANGED <<abs, npush, nrem>>
    /\ ret' = Ret("push", elem, IGRAPH_ENOMEM)
    /\ HistOther
    /\ UNCHANGED <<acct, badfree>>

\* the number of cells the two memcpy calls of a growing push copy
GrowCopied ==
    (stor_end - begin)
    + (IF end - stor_begin > 0 THEN end - stor_begin ELSE 0)

\* push on a full queue when igraph_Calloc returns the block at bigger
PushGrow(elem, bigger) ==
    LET old == stor_begin
        c   == stor_end - stor_begin
        e0  == bigger + c
        se  == bigger + GrowCap(c)
        h1  == [a \in DOMAIN heap \cup {bigger} |->
                  IF a = bigger THEN GrowCopy(c) ELSE heap[a]]
        h2  == Store(h1, bigger, e0, elem)
    IN  /\ end' = PushEnd(e0, bigger, se)
        /\ stor_end' = se
        /\ stor_begin' = bigger
        /\ begin' = bigger
        /\ heap' = Free(h2, old)
        /\ badfree' = (badfree \/ BadFree(h2, old))
        /\ UNCHANGED status
        /\ ret' = RetGrow(elem, begin - stor_begin)
        /\ HistPush(elem)
        /\ AcctPush(GrowCopied)

\* the bounds on the pushes and on the growth that the run explores
PushBound == IF acct.on THEN acct.pushes < MaxTotal ELSE npush < MaxPush
CapBound(c) == c <= (IF acct.on THEN MaxCostCap ELSE MaxCap)

igraph_dqueue_push(elem) ==
    /\ status = "live"
    /\ PushBound
    /\ IF begin # end
       THEN PushNotFull(elem)
       ELSE \/ PushGrowFail(elem)
            \/ \E bigger \in Bases \ DOMAIN heap :
                  /\ CapBound(GrowCap(stor_end - stor_begin))
                  /\ PushGrow(elem, bigger)

(***************************************************************************)
(* The queries as calls: they only report their result.                    *)
(***************************************************************************)
\* a query that advances begin as pop does
Query_Consuming(op, arg, val) ==
    /\ status = "live"
    /\ ret' = Ret(op, arg, val)
    /\ begin' = PopBegin(begin)
    /\ UNCHANGED <<stor_begin, stor_end, end, heap, status>>
    /\ UNCHANGED <<hist, acct, badfree>>

Query(op, arg, val) ==
    /\ status = "live"
    /\ ret' = Ret(op, arg, val)
    /\ UNCHANGED <<stor_begin, stor_end, begin, end, heap, status>>
    /\ UNCHANGED <<hist, acct, badfree>>

call_empty == Query("empty", 0, B2I(igraph_dqueue_empty))
call_full == Query("full", 0, B2I(igraph_dqueue_full))
call_size == Query("size", 0, igraph_dqueue_size)
call_head == end # NULL /\ Query("head", 0, igraph_dqueue_head)
call_back == end # NULL /\ Query("back", 0, igraph_dqueue_back)
call_e(idx) == idx < igraph_dqueue_size /\ Query("e", idx, igraph_dqueue_e(idx))

(***************************************************************************)
(* Calls that break the documented preconditions.  The code has no check   *)
(* for them: its assertions test only q and q->stor_begin.                 *)
(***************************************************************************)
\* what a call that did not return (a trap) is recorded as returning
ABORTED == 0 - 1

\* The values igraph_dqueue_e(idx) may return for idx >= size.  On an empty
\* queue end is NULL and the function compares pointers into the block with
\* it, which C leaves undefined: either the addresses are compared (NULL is
\* below every block, the value of igraph_dqueue_e) or the tests fail and
\* the function returns 0.
EOutOfRange(idx) ==
    IF end = NULL THEN {igraph_dqueue_e(idx), 0} ELSE {igraph_dqueue_e(idx)}

call_e_out(idx) ==
    /\ status = "live"
    /\ idx >= igraph_dqueue_size
    /\ \E v \in EOutOfRange(idx) : Query("e", idx, v)

\* head on an empty queue returns the cell at begin
call_head_empty == end = NULL /\ Query("head", 0, igraph_dqueue_head)

\* back on an empty queue reads *(NULL - 1): the read traps or yields a value
call_back_empty ==
    /\ status = "live" /\ end = NULL
    /\ \/ /\ ret' = Ret("back", 0, ABORTED)
          /\ status' = "undefined"
       \/ \E v \in Elems :
             /\ ret' = Ret("back", 0, v)
             /\ UNCHANGED status
    /\ UNCHANGED <<stor_begin, stor_end, begin, end, heap>>
    /\ UNCHANGED <<hist, acct, badfree>>

\* pop on an empty queue returns the cell at begin and advances begin; end
\* stays NULL
pop_empty ==
    /\ status = "live" /\ end = NULL
    /\ LET tmp == Deref(begin)
           b1 == PopBegin(begin)
       IN  /\ begin' = b1
           /\ end' = EndAfterRemove(b1, end)
           /\ ret' = Ret("pop", 0, tmp)
    /\ HistOther
    /\ UNCHANGED <<stor_begin, stor_end, heap, status, abs, npush, nrem, acct,
                   badfree>>

\* pop_back on an empty queue reads *(NULL - 1) and, if the read does not
\* trap, leaves end at NULL - 1; nothing is known of the queue afterwards
pop_back_empty ==
    /\ status = "live" /\ end = NULL
    /\ \/ /\ ret' = Ret("pop_back", 0, ABORTED)
          /\ UNCHANGED end
       \/ \E v \in Elems :
             /\ ret' = Ret("pop_back", 0, v)
             /\ end' = EndAfterRemove(begin, NULL - 1)
    /\ status' = "undefined"
    /\ HistOther
    /\ UNCHANGED <<stor_begin, stor_end, begin, heap, abs, npush, nrem, acct,
                   badfree>>

(***************************************************************************)
(* The specification.                                                      *)
(***************************************************************************)
InitQueue ==
    /\ stor_begin = 0 /\ stor_end = 0 /\ begin = 0 /\ end = 0
    /\ heap = << >>
    /\ status = "uninit"
    /\ ret = Ret("none", 0, 0)
    /\ abs = <<>> /\ npush = 0 /\ nrem = 0
    /\ mode = "other" /\ pushed = <<>> /\ popped = <<>>
    /\ badfree = FALSE

Init ==
    /\ InitQueue
    /\ acct = [on |-> FALSE, pushes |-> 0, copied |-> 0]

Next ==
    \/ \E size \in Requests : igraph_dqueue_init(size)
    \/ igraph_dqueue_destroy
    \/ igraph_dqueue_clear
    \/ \E elem \in Elems : igraph_dqueue_push(elem)
    \/ igraph_dqueue_pop
    \/ igraph_dqueue_pop_back
    \/ call_empty
    \/ call_full
    \/ call_size
    \/ call_head
    \/ call_back
    \/ \E idx \in 0..MaxIdx : call_e(idx)

Spec == Init /\ [][Next]_vars

\* the calls of Spec and the queries called outside their preconditions:
\* e with an index that is out of range, head and back on an empty queue
NextQuery ==
    \/ Next
    \/ \E idx \in 0..MaxIdx : call_e_out(idx)
    \/ call_head_empty
    \/ call_back_empty

SpecQuery == Init /\ [][NextQuery]_vars

\* the calls of Spec and the calls that break the preconditions
NextMisuse ==
    \/ Next
    \/ \E idx \in 0..MaxIdx : call_e_out(idx)
    \/ call_head_empty
    \/ call_back_empty
    \/ pop_empty
    \/ pop_back_empty

SpecMisuse == Init /\ [][NextMisuse]_vars

\* the runs that keep the accounts of the cost of growth: the calls that
\* change the queue, pushing the element 0 only
InitCost ==
    /\ InitQueue
    /\ acct = [on |-> TRUE, pushes |-> 0, copied |-> 0]

NextCost ==
    \/ \E size \in Requests : igraph_dqueue_init(size)
    \/ igraph_dqueue_destroy
    \/ igraph_dqueue_clear
    \/ igraph_dqueue_push(0)
    \/ igraph_dqueue_pop
    \/ igraph_dqueue_pop_back

SpecCost == InitCost /\ [][NextCost]_vars

(***************************************************************************)
(* Properties.                                                             *)
(***************************************************************************)
Capacity == stor_end - stor_begin

Reverse(seq) == [i \in 1..Len(seq) |-> seq[Len(seq) + 1 - i]]

\* C1: FIFO order.  In a run init; push e1..en; pop*, whatever capacity init
\* was given, the values popped so far are e1..ek in push order, a further
\* pop is possible as long as k < n, and after n pops the queue is empty.
C1_FifoOrder ==
    (status = "live" /\ mode = "popping") =>
        /\ Len(popped) <= Len(pushed)
        /\ popped = SubSeq(pushed, 1, Len(popped))
        /\ igraph_dqueue_empty <=> (Len(popped) = Len(pushed))

\* a run of four pushes that grew a block of 2 cells, then four pops
C1_Witness ==
    /\ status = "live" /\ mode = "popping"
    /\ Len(pushed) = 4 /\ popped = pushed /\ pushed[1] # pushed[2]
    /\ Capacity = 5
    /\ igraph_dqueue_empty

\* C2: LIFO from the tail.  In a run init; push e1..en; pop_back*, the values
\* popped so far are en, e(n-1), ... in that order, a further pop_back is
\* possible as long as fewer than n were made, and after n the queue is empty.
C2_LifoFromTail ==
    (status = "live" /\ mode = "popping_back") =>
        /\ Len(popped) <= Len(pushed)
        /\ popped = SubSeq(Reverse(pushed), 1, Len(popped))
        /\ igraph_dqueue_empty <=> (Len(popped) = Len(pushed))

\* a run of four pushes that grew a block of 2 cells, then four pop_backs
C2_Witness ==
    /\ status = "live" /\ mode = "popping_back"
    /\ Len(pushed) = 4 /\ popped = Reverse(pushed) /\ pushed[3] # pushed[4]
    /\ Capacity = 5
    /\ igraph_dqueue_empty

\* C3: growth preserves content and order.  A successful push(x) on a full
\* queue of capacity c, wrapped or not, leaves capacity 2*c+1, begin at the
\* start of the block, end at offset c+1, and as content the c previous
\* elements in their previous order followed by x.
C3_GrowthPreserves ==
    [][ (status = "live" /\ igraph_dqueue_full
            /\ ret'.op = "push" /\ ret'.val = 0) =>
        LET c == Capacity IN
        /\ Len(Content) = c
        /\ Capacity' = 2 * c + 1
        /\ Len(heap'[stor_begin']) = 2 * c + 1
        /\ begin' = stor_begin'
        /\ end' = stor_begin' + c + 1
        /\ Content' = Append(Content, ret'.arg) ]_vars

\* a push has just grown a full queue whose live range wrapped
C3_Witness ==
    /\ status = "live" /\ ret.op = "push" /\ ret.val = 0 /\ ret.grew > 0
    /\ Capacity = 5 /\ Len(Content) = 3
    /\ Content[1] # Content[2]

\* C4: indexed access.  In every state reached with the preconditions
\* respected, igraph_dqueue_e(i) for 0 <= i < size is the i-th live element
\* in logical order (what pop returns after i earlier pops).
C4_IndexedAccess ==
    status = "live" =>
        \A i \in 0..(igraph_dqueue_size - 1) : igraph_dqueue_e(i) = abs[i + 1]

\* C5: size accounting.  size is the number of successful pushes minus the
\* number of pops and pop_backs since init or the last clear.
C5_SizeAccounting ==
    status = "live" => igraph_dqueue_size = npush - nrem

\* five pushes (one of them growing) and two pops, the live range wrapped
C5_Witness ==
    /\ status = "live" /\ npush = 5 /\ nrem = 2
    /\ end # NULL /\ end < begin /\ Capacity = 5

\* C6: empty is true exactly when size is 0 and exactly when no live element
\* remains; the queue becomes empty exactly by a clear or by a pop/pop_back
\* that removes the last live element.
C6_EmptyIffSizeZero ==
    /\ [](status = "live" =>
            /\ igraph_dqueue_empty <=> (igraph_dqueue_size = 0)
            /\ igraph_dqueue_empty <=> (abs = <<>>))
    /\ [][ (status = "live" /\ status' = "live"
              /\ ~igraph_dqueue_empty /\ igraph_dqueue_empty') =>
            \/ ret'.op = "clear"
            \/ ret'.op \in {"pop", "pop_back"} /\ Len(abs) = 1 ]_vars
    /\ [][ (status = "live" /\
              (\/ ret'.op = "clear"
               \/ ret'.op \in {"pop", "pop_back"} /\ Len(abs) = 1)) =>
            igraph_dqueue_empty' ]_vars

\* a pop has just removed the last element of a queue whose begin is not at
\* the start of the block
C6_Witness ==
    /\ status = "live" /\ ret.op = "pop" /\ igraph_dqueue_empty
    /\ begin > stor_begin /\ npush = 3 /\ nrem = 3

\* C7: full is true exactly when size equals the allocated capacity; it is
\* false on an empty queue, and empty and full are never both true.
C7_FullIffSizeIsCapacity ==
    status = "live" =>
        /\ igraph_dqueue_full <=> (igraph_dqueue_size = Capacity)
        /\ igraph_dqueue_empty => ~igraph_dqueue_full
        /\ ~(igraph_dqueue_empty /\ igraph_dqueue_full)

\* a full queue whose live range wraps
C7_Witness ==
    /\ status = "live" /\ igraph_dqueue_full /\ begin > stor_begin
    /\ igraph_dqueue_size = 3 /\ Capacity = 3

\* C8: failed growth is atomic.  A push that returns IGRAPH_ENOMEM was made
\* on a full queue and leaves the fields, the heap (the old block still
\* allocated, with the same cells) and the content as they were; and a push
\* on a full queue that installs no new block returns IGRAPH_ENOMEM.
C8_FailedGrowthAtomic ==
    /\ [][ (ret'.op = "push" /\ ret'.val = IGRAPH_ENOMEM) =>
            /\ status = "live" /\ igraph_dqueue_full
            /\ UNCHANGED <<stor_begin, stor_end, begin, end, heap, status, abs>>
            /\ Content' = Content
            /\ igraph_dqueue_size' = igraph_dqueue_size ]_vars
    /\ [][ (status = "live" /\ igraph_dqueue_full /\ ret'.op = "push"
              /\ stor_begin' = stor_begin) =>
            ret'.val = IGRAPH_ENOMEM ]_vars

\* a push has just failed on a full queue whose live range wraps
C8_Witness ==
    /\ status = "live" /\ ret.op = "push" /\ ret.val = IGRAPH_ENOMEM
    /\ igraph_dqueue_full /\ begin > stor_begin /\ Capacity = 3

Max(a, b) == IF a >= b THEN a ELSE b

\* C9: a successful init(requested) leaves one zeroed block of
\* max(requested, 1) cells, begin at its start, the queue empty, size 0 and
\* not full.
C9_InitState ==
    (ret.op = "init" /\ ret.val = 0) =>
        /\ status = "live"
        /\ Capacity = Max(ret.arg, 1)
        /\ DOMAIN heap = {stor_begin}
        /\ heap[stor_begin] = Zeros(Max(ret.arg, 1))
        /\ begin = stor_begin
        /\ end = NULL
        /\ igraph_dqueue_size = 0
        /\ igraph_dqueue_empty
        /\ ~igraph_dqueue_full

\* init has just succeeded with a request of 0
C9_Witness ==
    /\ ret.op = "init" /\ ret.val = 0 /\ ret.arg = 0 /\ Capacity = 1

\* C10: clear leaves the queue empty with size 0 and begin at the start of
\* the block, and leaves the block, its cells and the capacity as they were;
\* from then on the queue holds exactly what was pushed and not yet removed
\* since, as a freshly initialised one does.
C10_ClearKeepsBuffer ==
    /\ [][ ret'.op = "clear" =>
            /\ status = "live" /\ status' = "live"
            /\ igraph_dqueue_empty' /\ igraph_dqueue_size' = 0
            /\ begin' = stor_begin'
            /\ Capacity' = Capacity
            /\ UNCHANGED <<stor_begin, stor_end, heap>> ]_vars
    /\ [](status = "live" =>
            /\ Content = abs
            /\ igraph_dqueue_full <=> (Len(abs) = Capacity))

\* clear has just been called on a queue of capacity 3 whose cells keep the
\* values stored before the call
C10_Witness ==
    /\ status = "live" /\ ret.op = "clear" /\ igraph_dqueue_empty
    /\ Capacity = 3 /\ heap[stor_begin] = <<1, 0, 1>>

\* C11: out-of-range indexed access.  igraph_dqueue_e(idx) with idx >= size
\* returns 0 in every state, the empty state and the states reached after
\* pushes and pops included, never the content of a slot that is not live.
C11_OutOfRangeZero ==
    (status = "live" /\ ret.op = "e" /\ ret.arg >= igraph_dqueue_size) =>
        ret.val = 0

\* C12: head, back, pop and pop_back on an empty queue fail (an assertion
\* trips) instead of returning a value, and leave the queue as it was.
C12_EmptyPreconditionAsserted ==
    [][ (status = "live" /\ end = NULL
            /\ ret'.op \in {"head", "back", "pop", "pop_back"}) =>
        /\ ret'.val = ABORTED
        /\ UNCHANGED <<stor_begin, stor_end, begin, end, heap>> ]_vars

\* C14: amortised growth cost.  In the life of a queue, whatever its initial
\* capacity and however pops, pop_backs and clears are interleaved, the
\* cells copied by all growing pushes together are at most twice the number
\* of successful pushes.
C14_AmortisedCopy ==
    acct.on => acct.copied <= 2 * acct.pushes

\* a queue of one cell has grown three times (1, 3 and 7 cells copied) in
\* eight pushes
C14_Witness ==
    /\ status = "live" /\ acct.on
    /\ Capacity = 15 /\ acct.copied = 11 /\ acct.pushes = 8

\* C13: push allocates exactly when the queue is full.  On a full queue it
\* asks for a bigger block (and either fails or installs it); on a queue
\* that is not full, empty included, it allocates nothing, leaves the block,
\* the capacity, begin and the live elements as they were, writes only the
\* slot at logical end (begin when the queue is empty) and advances end by
\* one modulo the capacity.
C13_PushAllocatesWhenFull ==
    [][ (status = "live" /\ ret'.op = "push") =>
        IF igraph_dqueue_full
        THEN \/ ret'.val = IGRAPH_ENOMEM
             \/ /\ ret'.val = 0
                /\ stor_begin' \notin DOMAIN heap
                /\ DOMAIN heap' = {stor_begin'}
                /\ Capacity' > Capacity
        ELSE LET slot == IF end = NULL THEN begin ELSE end
                 off  == slot - stor_begin
             IN  /\ ret'.val = 0
                 /\ DOMAIN heap' = DOMAIN heap
                 /\ UNCHANGED <<stor_begin, stor_end, begin>>
                 /\ heap'[stor_begin] =
                        [heap[stor_begin] EXCEPT ![off + 1] = ret'.arg]
                 /\ end' = stor_begin + ((off + 1) % Capacity)
                 /\ Content' = Append(Content, ret'.arg) ]_vars

\* a push on an empty queue whose begin is not at the start of the block
C13_Witness ==
    /\ status = "live" /\ ret.op = "push" /\ ret.val = 0 /\ ret.grew < 0
    /\ Len(abs) = 1 /\ begin > stor_begin /\ nrem > 0

Ring(n) ==
    [i \in 1..n |->
        heap[stor_begin][(((begin - stor_begin) + (i - 1)) % Capacity) + 1]]

\* C16: refinement of a sequence.  With abs the sequence that push appends
\* to, pop beheads, pop_back shortens and clear empties: the slots from
\* begin to end read modulo the capacity are abs, end is Len(abs) slots
\* after begin modulo the capacity (NULL when abs is empty), pop returns the
\* first and pop_back the last element of abs, and head and back return
\* them without removing them.
C16_RefinesSequence ==
    /\ [](status = "live" =>
            /\ Ring(Len(abs)) = abs
            /\ end = IF abs = <<>> THEN NULL
                     ELSE stor_begin
                          + (((begin - stor_begin) + Len(abs)) % Capacity)
            /\ abs # <<>> =>
                  /\ igraph_dqueue_head = abs[1]
                  /\ igraph_dqueue_back = abs[Len(abs)]
            /\ ret.op = "head" => ret.val = abs[1]
            /\ ret.op = "back" => ret.val = abs[Len(abs)])
    /\ [][ ret'.op = "pop" =>
            ret'.val = abs[1] /\ abs' = Tail(abs) ]_vars
    /\ [][ ret'.op = "pop_back" =>
            /\ ret'.val = abs[Len(abs)]
            /\ abs' = SubSeq(abs, 1, Len(abs) - 1) ]_vars

\* back has just been called with end at the start of the block: the last
\* element is in the last cell
C16_Witness ==
    /\ status = "live" /\ ret.op = "back" /\ end = stor_begin
    /\ begin > stor_begin /\ Len(abs) = 2 /\ abs[1] # abs[2]
    /\ ret.val = abs[2]

\* C17: structural invariant.  The block has at least one cell, size is
\* between 0 and the capacity, begin points into the block, and end is NULL
\* or points into the block (never one past its last cell).
C17_Structure ==
    status = "live" =>
        /\ Capacity >= 1
        /\ stor_begin \in DOMAIN heap
        /\ Len(heap[stor_begin]) = Capacity
        /\ 0 <= igraph_dqueue_size /\ igraph_dqueue_size <= Capacity
        /\ stor_begin <= begin /\ begin < stor_end
        /\ end = NULL \/ (stor_begin <= end /\ end < stor_end)

\* a push has just written the last cell of the block and end wrapped to
\* its start
C17_Witness ==
    /\ status = "live" /\ ret.op = "push" /\ ret.val = 0
    /\ end = stor_begin /\ begin = stor_begin /\ Capacity = 3
    /\ heap[stor_begin][3] = ret.arg /\ Len(abs) = 3

\* C18: the queries are pure.  empty, full, size, head, back and e, in any
\* state and with any index, those outside the preconditions included,
\* leave the fields of the queue and the cells of its block as they were.
C18_QueriesPure ==
    [][ ret'.op \in {"empty", "full", "size", "head", "back", "e"} =>
        /\ UNCHANGED <<stor_begin, stor_end, begin, end, heap>>
        /\ UNCHANGED <<abs, npush, nrem>> ]_vars

\* e has just been called with an index that is out of range on a queue
\* whose live range wraps
C18_Witness ==
    /\ status = "live" /\ ret.op = "e" /\ ret.arg >= igraph_dqueue_size
    /\ end # NULL /\ end < begin

\* C19: allocation accounting.  A live queue owns exactly one allocated
\* block, the one at stor_begin; after a failed init and after destroy no
\* block is allocated; no call frees a block that is not allocated (a growing
\* push frees the old block once, a second destroy frees nothing).
C19_AllocationAccounting ==
    /\ ~badfree
    /\ DOMAIN heap = (IF status = "live" THEN {stor_begin} ELSE {})
    /\ status = "live" => stor_begin # NULL
    /\ (ret.op = "push" /\ ret.grew >= 0) => Len(heap[stor_begin]) = Capacity
    /\ (ret.op = "destroy" /\ ret.val = 0) => status \in {"failed", "destroyed"}

\* destroy has just been called on a queue that was destroyed before
C19_Witness ==
    /\ status = "destroyed" /\ ret.op = "destroy" /\ ret.val = 0
    /\ heap = << >> /\ stor_end # 0

====
